---- MODULE Spec2Model ----
(***************************************************************************)
(* i18n-ai-translator: the tree codec (flatten / unflatten), the section   *)
(* grouper (groupBySection / ungroupFromSections), the translation unit    *)
(* client (initOpenAI / translateBatch) and the orchestrator (translate).  *)
(*                                                                         *)
(* Strings that the code takes apart (keys) are sequences of one-character *)
(* strings; strings that the code only carries (values) are TLA+ strings.  *)
(* A JSON value is a record [k, s, e]: k its kind, s its text (the result  *)
(* of String(value) for a non-object), e the ordered entries of an object, *)
(* each entry a record [key, val]. The order of e is the order of          *)
(* Object.entries: insertion order, the property names modelled being no   *)
(* array indices (but for "0", which is kept first).                       *)
(***************************************************************************)
EXTENDS Integers, Sequences, FiniteSets, TLC

\* ---------------------------------------------------------------- bounds
\* Nodes (object entries at any depth) of a tree the codec is applied to.
MaxNodes == 3
\* Entries of a flat mapping the grouper or the client is applied to.
MaxFlat == 2
\* Target languages of one run (the length of --to).
MaxLangs == 2
\* Files of the translations directory the differ is given.
MaxFiles == 2

\* ---------------------------------------------------------------- text
DOT == "."

\* UTF-16 code unit of a character, the order Array.prototype.sort uses.
Code(c) == CASE c = "." -> 46 [] c = "0" -> 48 [] c = "a" -> 97 [] c = "b" -> 98
             [] c = "c" -> 99 [] OTHER -> 0

\* key.indexOf("."): the 1-based position of the first dot, 0 when there is none.
IndexOfDot(key) ==
  IF \E i \in 1..Len(key) : key[i] = DOT
  THEN CHOOSE i \in 1..Len(key) : key[i] = DOT /\ \A j \in 1..(i-1) : key[j] # DOT
  ELSE 0

\* key.split("."): the segments between the dots; "" gives [""].
RECURSIVE Split(_)
Split(key) ==
  LET d == IndexOfDot(key) IN
  IF d = 0 THEN <<key>>
  ELSE <<SubSeq(key, 1, d - 1)>> \o Split(SubSeq(key, d + 1, Len(key)))

\* `${prefix}.${key}`
Join(prefix, key) == prefix \o <<DOT>> \o key

\* ---------------------------------------------------------------- JSON values
NoEntries == <<>>
Str(s) == [k |-> "str", s |-> s, e |-> NoEntries]
Num(s) == [k |-> "num", s |-> s, e |-> NoEntries]
Null == [k |-> "null", s |-> "null", e |-> NoEntries]
\* The one-element array [s]: its own keys are its indices, String() joins it.
Arr(s) == [k |-> "arr", s |-> s,
           e |-> <<[key |-> <<"0">>, val |-> [k |-> "str", s |-> s, e |-> NoEntries]]>>]
Obj(entries) == [k |-> "obj", s |-> "", e |-> entries]
\* No value: an absent file, a variable not yet assigned.
None == [k |-> "none", s |-> "", e |-> NoEntries]
\* A thrown error, named by its message.
Err(msg) == [k |-> "error", s |-> msg, e |-> NoEntries]

\* A file whose content is not JSON.
Garbage == [k |-> "garbage", s |-> "", e |-> NoEntries]

IsObj(v) == v.k = "obj"
IsErr(v) == v.k = "error"

\* typeof v === "object" alone: an array passes, and null.
isObjectOrArray(v) == v.k \in {"obj", "arr", "null"}

\* typeof v === "object" && v !== null && !Array.isArray(v)
isPlainObject(v) == v.k = "obj"

\* Object.keys(o), in order.
Keys(entries) == [i \in 1..Len(entries) |-> entries[i].key]
KeySet(entries) == {entries[i].key : i \in 1..Len(entries)}
ToSet(seq) == {seq[i] : i \in 1..Len(seq)}
\* key in o (own properties only)
Has(entries, key) == \E i \in 1..Len(entries) : entries[i].key = key
\* o[key]
Get(entries, key) ==
  entries[CHOOSE i \in 1..Len(entries) : entries[i].key = key].val
\* o[key] = val: a present key keeps its place, a new key goes last.
Put(entries, key, val) ==
  IF Has(entries, key)
  THEN [i \in 1..Len(entries) |->
          IF entries[i].key = key THEN [key |-> key, val |-> val] ELSE entries[i]]
  ELSE Append(entries, [key |-> key, val |-> val])

\* Object.assign(target, source) and { ...a, ...b }
RECURSIVE Assign(_, _)
Assign(target, source) ==
  IF source = <<>> THEN target
  ELSE Assign(Put(target, Head(source).key, Head(source).val), Tail(source))

\* String(value) of a leaf
StringOf(v) == Str(v.s)

\* ---------------------------------------------------------------- tree codec
\* flatten with the prefix forgotten on recursion: every key is its last segment.
RECURSIVE flattenNoPrefix(_, _)
flattenNoPrefix(obj, prefix) ==
  IF obj = <<>> THEN <<>>
  ELSE
    LET key == Head(obj).key
        value == Head(obj).val
        here == IF isPlainObject(value)
                THEN flattenNoPrefix(value.e, key)
                ELSE <<[key |-> key, val |-> StringOf(value)]>>
    IN Assign(here, flattenNoPrefix(Tail(obj), prefix))

RECURSIVE flatten(_, _)
flatten(obj, prefix) ==
  IF obj = <<>> THEN <<>>
  ELSE
    LET key == Head(obj).key
        value == Head(obj).val
        newKey == IF prefix # <<>> THEN Join(prefix, key) ELSE key
        here == IF isPlainObject(value)
                THEN flatten(value.e, newKey)
                ELSE <<[key |-> newKey, val |-> StringOf(value)]>>
    IN Assign(here, flatten(Tail(obj), prefix))

\* One pass of unflatten's inner loop and final assignment, on the object
\* `current` refers to: the object with the entry set, or the TypeError that
\* strict-mode code throws when `current` is not an object.
RECURSIVE SetPath(_, _, _)
SetPath(current, parts, value) ==
  IF ~IsObj(current) THEN Err("TypeError")
  ELSE IF Len(parts) = 1 THEN Obj(Put(current.e, parts[1], value))
  ELSE
    LET part == Head(parts)
        child == IF Has(current.e, part) THEN Get(current.e, part) ELSE Obj(<<>>)
        sub == SetPath(child, Tail(parts), value)
    IN IF IsErr(sub) THEN sub ELSE Obj(Put(current.e, part, sub))

RECURSIVE UnflattenFrom(_, _)
UnflattenFrom(result, flat) ==
  IF flat = <<>> \/ IsErr(result) THEN result
  ELSE UnflattenFrom(SetPath(result, Split(Head(flat).key), Head(flat).val), Tail(flat))

unflatten(flat) == UnflattenFrom(Obj(<<>>), flat)

\* ---------------------------------------------------------------- section grouper
RECURSIVE GroupFrom(_, _)
GroupFrom(result, flat) ==
  IF flat = <<>> THEN result
  ELSE
    LET key == Head(flat).key
        dotIndex == IndexOfDot(key)
        section == IF dotIndex = 0 THEN key ELSE SubSeq(key, 1, dotIndex - 1)
        remainder == IF dotIndex = 0 THEN <<>> ELSE SubSeq(key, dotIndex + 1, Len(key))
        strings == IF Has(result, section) THEN Get(result, section).e ELSE <<>>
    IN GroupFrom(Put(result, section, Obj(Put(strings, remainder, Head(flat).val))),
                 Tail(flat))

groupBySection(flat) == GroupFrom(<<>>, flat)

FullKey(section, remainder) ==
  IF remainder = <<>> THEN section ELSE Join(section, remainder)

RECURSIVE UngroupSection(_, _, _)
UngroupSection(result, section, strings) ==
  IF strings = <<>> THEN result
  ELSE UngroupSection(Put(result, FullKey(section, Head(strings).key), Head(strings).val),
                      section, Tail(strings))

RECURSIVE UngroupFrom(_, _)
UngroupFrom(result, grouped) ==
  IF grouped = <<>> THEN result
  ELSE UngroupFrom(UngroupSection(result, Head(grouped).key, Head(grouped).val.e),
                   Tail(grouped))

ungroupFromSections(grouped) == UngroupFrom(<<>>, grouped)

\* ---------------------------------------------------------------- translation unit client
\* a < b in the order of Array.prototype.sort() without a comparator.
RECURSIVE LexLess(_, _)
LexLess(a, b) ==
  IF b = <<>> THEN FALSE
  ELSE IF a = <<>> THEN TRUE
  ELSE IF Code(Head(a)) # Code(Head(b)) THEN Code(Head(a)) < Code(Head(b))
  ELSE LexLess(Tail(a), Tail(b))

RECURSIVE InsertSorted(_, _)
InsertSorted(sorted, key) ==
  IF sorted = <<>> THEN <<key>>
  ELSE IF LexLess(key, Head(sorted)) THEN <<key>> \o sorted
  ELSE <<Head(sorted)>> \o InsertSorted(Tail(sorted), key)

\* keys.sort()
RECURSIVE Sort(_)
Sort(keys) == IF keys = <<>> THEN <<>> ELSE InsertSorted(Sort(Tail(keys)), Head(keys))

\* JSON.stringify of an array of strings: ["k1","k2"], character by character.
RECURSIVE StringifyItems(_)
StringifyItems(keys) ==
  IF keys = <<>> THEN <<>>
  ELSE <<"\"">> \o Head(keys) \o <<"\"">>
       \o (IF Len(keys) > 1 THEN <<",">> ELSE <<>>) \o StringifyItems(Tail(keys))

Stringify(keys) == <<"[">> \o StringifyItems(keys) \o <<"]">>

\* Object.keys(v): the own keys of an object or array, none for a number, a
\* TypeError for null.
ObjectKeys(v) == Keys(v.e)

\* A reply of the completion service: no content, content that is not JSON, or
\* content that parses to the value v.
EmptyReply == [kind |-> "empty", v |-> None]
TextReply == [kind |-> "text", v |-> None]
JsonReply(v) == [kind |-> "json", v |-> v]

\* The key lists compared by their lengths only.
KeysMatchByCount(strings, translated) ==
  Len(Keys(strings)) = Len(ObjectKeys(translated))

\* The comparison of the two key lists (openai.ts:69-71): TRUE when they match.
KeysMatch(strings, translated) ==
  Stringify(Sort(Keys(strings))) = Stringify(Sort(ObjectKeys(translated)))

\* translateBatch returning whatever parses, its keys not compared.
HandleReplyUnchecked(strings, reply) ==
  IF reply.kind = "empty" THEN Err("Empty response from OpenAI")
  ELSE IF reply.kind = "text" THEN Err("Failed to parse translation response as JSON")
  ELSE IF reply.v.k = "null" THEN Err("TypeError")
  ELSE reply.v

\* translateBatch from the reply on (openai.ts:50-77): the value returned, or
\* the error thrown.
HandleReply(strings, reply) ==
  IF reply.kind = "empty" THEN Err("Empty response from OpenAI")
  ELSE IF reply.kind = "text" THEN Err("Failed to parse translation response as JSON")
  ELSE IF reply.v.k = "null" THEN Err("TypeError")
  ELSE IF ~KeysMatch(strings, reply.v)
       THEN Err("Translation response keys don't match input keys")
  ELSE reply.v

NotInitialized == Err("OpenAI client not initialized")

\* ---------------------------------------------------------------- orchestrator helpers
\* The strings of a section kept whole.
FilterStringsKeepAll(section, strings, allowedKeys) == strings

RECURSIVE FilterStrings(_, _, _)
FilterStrings(section, strings, allowedKeys) ==
  IF strings = <<>> THEN <<>>
  ELSE
    LET remainder == Head(strings).key
        fullKey == IF remainder = <<>> THEN section ELSE Join(section, remainder)
        rest == FilterStrings(section, Tail(strings), allowedKeys)
    IN IF fullKey \in allowedKeys THEN <<Head(strings)>> \o rest ELSE rest

\* filterGroupedByKeys keeping the sections it has emptied.
filterGroupedKeepEmpty(grouped, allowedKeys) ==
  [i \in 1..Len(grouped) |->
     [key |-> grouped[i].key,
      val |-> Obj(FilterStrings(grouped[i].key, grouped[i].val.e, allowedKeys))]]

RECURSIVE filterGroupedByKeys(_, _)
filterGroupedByKeys(grouped, allowedKeys) ==
  IF grouped = <<>> THEN <<>>
  ELSE
    LET section == Head(grouped).key
        filteredStrings == FilterStrings(section, Head(grouped).val.e, allowedKeys)
        rest == filterGroupedByKeys(Tail(grouped), allowedKeys)
    IN IF Len(filteredStrings) > 0
       THEN <<[key |-> section, val |-> Obj(filteredStrings)]>> \o rest
       ELSE rest

\* Object.keys(flattened).filter((k) => !existingKeys.has(k))
MissingKeys(flattened, existingKeys) ==
  SelectSeq(Keys(flattened), LAMBDA k : k \notin existingKeys)

\* ---------------------------------------------------------------- missing-key differ
\* A file name: what is before its extension, and the extension.
FileName(stem, ext) == [stem |-> stem, ext |-> ext]
\* file.endsWith(".json")
EndsWithJson(name) == name.ext = ".json"
\* path.basename(mainFilePath)
mainFileName == FileName("en", ".json")

\* A directory that does not exist, and one that holds the files listed.
NoDirectory == [exists |-> FALSE, files |-> <<>>]
Directory(files) == [exists |-> TRUE, files |-> files]

\* readJson: the object parsed, or the error thrown.
readJson(file) ==
  IF file = Garbage THEN Err("SyntaxError")
  ELSE IF ~isPlainObject(file) THEN Err("Expected object at root")
  ELSE file

\* collectKeys: the paths of the string leaves, in order; a leaf that is no
\* string and no object is passed over.
RECURSIVE collectKeys(_, _)
collectKeys(obj, prefix) ==
  IF obj = <<>> THEN <<>>
  ELSE
    LET key == Head(obj).key
        value == Head(obj).val
        fullKey == IF prefix # <<>> THEN Join(prefix, key) ELSE key
        here == IF value.k = "str" THEN <<fullKey>>
                ELSE IF isPlainObject(value) THEN collectKeys(value.e, fullKey)
                ELSE <<>>
    IN here \o collectKeys(Tail(obj), prefix)

\* The files of the directory that are compared against: *.json, the main
\* file's name excluded.
otherFiles(dir) ==
  SelectSeq(dir.files, LAMBDA f : EndsWithJson(f.name) /\ f.name # mainFileName)

\* The key list of each file that reads as an object; the others are skipped.
RECURSIVE otherFilesKeys(_)
otherFilesKeys(paths) ==
  IF paths = <<>> THEN <<>>
  ELSE
    LET data == readJson(Head(paths).content) IN
    (IF IsErr(data) THEN <<>> ELSE <<collectKeys(data.e, <<>>)>>)
      \o otherFilesKeys(Tail(paths))

\* A key counted as missing when one file lacks it.
isMissingFromAny(key, keyLists) ==
  \E i \in 1..Len(keyLists) : key \notin ToSet(keyLists[i])

\* otherFilesKeys.every(fileKeys => !fileKeys.includes(key))
isMissingFromAll(key, keyLists) ==
  \A i \in 1..Len(keyLists) : key \notin ToSet(keyLists[i])

\* findMissingKeys looking for the directory before the main file.
findMissingKeysDirectoryFirst(main, dir) ==
  IF ~dir.exists THEN [err |-> "Translations directory not found", keys |-> <<>>]
  ELSE IF main = None THEN [err |-> "Main file not found", keys |-> <<>>]
  ELSE [err |-> "", keys |-> <<>>]

\* findMissingKeys: the keys returned, or the error thrown.
findMissingKeys(main, dir) ==
  IF main = None THEN [err |-> "Main file not found", keys |-> <<>>]
  ELSE IF ~dir.exists THEN [err |-> "Translations directory not found", keys |-> <<>>]
  ELSE IF IsErr(readJson(main)) THEN [err |-> readJson(main).s, keys |-> <<>>]
  ELSE
    LET mainKeys == collectKeys(readJson(main).e, <<>>)
        keyLists == otherFilesKeys(otherFiles(dir))
    IN [err |-> "",
        keys |-> SelectSeq(mainKeys, LAMBDA key : isMissingFromAll(key, keyLists))]

\* ---------------------------------------------------------------- inputs
a == <<"a">>
b == <<"b">>
c == <<"c">>
empty == <<>>

\* All objects of at most n entries, keys from `keys` (distinct), values from `vals`.
RECURSIVE ObjectsOver(_, _, _)
ObjectsOver(keys, vals, n) ==
  IF n = 0 THEN {<<>>}
  ELSE LET smaller == ObjectsOver(keys, vals, n - 1) IN
       smaller \cup
       {Append(t[1], [key |-> t[2], val |-> t[3]]) :
          t \in {u \in smaller \X keys \X vals :
                   Len(u[1]) = n - 1 /\ u[2] \notin KeySet(u[1])}}

\* All trees of exactly n nodes, names from `names`, leaves from `leaves`:
\* a first entry, a leaf or an object of m nodes, and the entries after it.
RECURSIVE TreesOfSize(_, _, _)
TreesOfSize(names, leaves, n) ==
  IF n = 0 THEN {<<>>}
  ELSE UNION {
    LET firsts == IF m = 0 THEN leaves \cup {Obj(<<>>)}
                  ELSE {Obj(sub) : sub \in TreesOfSize(names, leaves, m)}
        rests == TreesOfSize(names, leaves, n - 1 - m)
    IN {<<[key |-> t[1], val |-> t[2]]>> \o t[3] :
          t \in {u \in names \X firsts \X rests : u[1] \notin KeySet(u[3])}}
    : m \in 0..(n - 1)}

\* All trees of at most n nodes.
TreesOver(names, leaves, n) == UNION {TreesOfSize(names, leaves, m) : m \in 0..n}

\* Property names of the trees the codec is applied to: plain, empty, a dot.
Names == {a, b, empty, <<DOT>>}
Leaves == {Str("Entrar"), Num("5")}

\* Keys of the flat mappings the grouper is applied to.
FlatKeys == {a, b, empty, <<DOT>>, <<"a", DOT>>, <<"a", DOT, "b">>, <<DOT, "a">>}
FlatValues == {Str("Entrar"), Str("Sair")}

\* Keys and values of the unit translateBatch is applied to, and of the replies.
UnitKeys == {empty, b, <<"0">>}
UnitValues == {Str("Entrar"), Str("Hi {{name}}")}
ReplyValues == {Str("Hola {{name}}"), Str("Hola"), Num("5"), Null,
                Obj(<<[key |-> b, val |-> Str("Hola")]>>)}
\* An object lists a key that is an array index before its other keys.
IndexFirst(o) == \A i \in 1..Len(o) : o[i].key = <<"0">> => i = 1
Units == {Obj(o) : o \in {x \in ObjectsOver(UnitKeys, UnitValues, MaxFlat) : IndexFirst(x)}}
ClientReplies ==
  {EmptyReply, TextReply, JsonReply(Null), JsonReply(Num("5")), JsonReply(Arr("Hola"))}
  \cup {JsonReply(Obj(o)) :
          o \in {x \in ObjectsOver(UnitKeys, ReplyValues, MaxFlat + 1) : IndexFirst(x)}}

\* Input files of a run: trees, a root that is no object, no file.
SourceMain ==
  Obj(<<[key |-> a, val |-> Obj(<<[key |-> b, val |-> Str("Entrar")],
                                  [key |-> c, val |-> Str("Hi {{name}}")]>>)],
        [key |-> b, val |-> Str("Sair")]>>)
SourceLeaf == Obj(<<[key |-> a, val |-> Str("Entrar")]>>)
SourceEmptyName ==
  Obj(<<[key |-> a, val |-> Obj(<<[key |-> empty, val |-> Str("Entrar")],
                                  [key |-> b, val |-> Str("Sair")]>>)]>>)
Inputs == {SourceMain, SourceLeaf, SourceEmptyName, Obj(<<>>),
           Arr("Entrar"), Null, Num("5"), None}

\* Output files found before a run: none, not JSON, no object, trees.
ExistingFull ==
  Obj(<<[key |-> a, val |-> Obj(<<[key |-> b, val |-> Str("Enter")],
                                  [key |-> c, val |-> Str("Hello {{name}}")]>>)],
        [key |-> b, val |-> Str("Exit")]>>)
ExistingPart == Obj(<<[key |-> a, val |-> Obj(<<[key |-> b, val |-> Str("Enter")]>>)]>>)
ExistingLeaf == Obj(<<[key |-> a, val |-> Str("Enter")]>>)
Existing == {None, Garbage, Arr("Enter"), ExistingFull, ExistingPart, ExistingLeaf}

\* Main files the differ is given: none, not JSON, no object, trees; one with
\* a leaf that is no string.
MainNumberLeaf ==
  Obj(<<[key |-> a, val |-> Num("5")], [key |-> b, val |-> Str("Sair")]>>)
MainFiles == {None, Garbage, Arr("Entrar"), Obj(<<>>),
              SourceMain, SourceLeaf, SourceEmptyName, MainNumberLeaf}

\* Files of the translations directory.
OnlyB == Obj(<<[key |-> b, val |-> Str("Exit")]>>)
NumberA == Obj(<<[key |-> a, val |-> Num("5")]>>)
FileNames == {FileName("en", ".json"), FileName("fr", ".json"),
              FileName("es", ".json"), FileName("notes", ".txt")}
FileContents == {Garbage, Arr("Enter"), ExistingFull, ExistingPart, ExistingLeaf,
                 OnlyB, NumberA}
DirectoryFiles == {[name |-> n, content |-> x] : n \in FileNames, x \in FileContents}
\* The listings of at most MaxFiles files, no name twice, in any order.
Listings ==
  {d \in UNION {[1..n -> DirectoryFiles] : n \in 0..MaxFiles} :
     \A i, j \in 1..Len(d) : i # j => d[i].name # d[j].name}
Directories == {NoDirectory} \cup {Directory(d) : d \in Listings}

Langs == {"en", "fr"}
\* The lists of targets, duplicates allowed; the first is "en", the languages
\* being interchangeable.
ToLists == {t \in UNION {[1..n -> Langs] : n \in 1..MaxLangs} : t[1] = "en"}

\* The translation of a source text.
Translation(text) ==
  CASE text = "Entrar" -> "Enter"
    [] text = "Sair" -> "Exit"
    [] text = "Hi {{name}}" -> "Hello {{name}}"
    [] OTHER -> text

\* The replies the service may give to a unit: each value translated, with
\* the keys as sent, in reverse order, with one renamed, one dropped, one
\* added, a value that is no string; a payload that is no object; no JSON;
\* nothing.
Reverse(seq) == [i \in 1..Len(seq) |-> seq[Len(seq) + 1 - i]]
Translated(strings) ==
  [i \in 1..Len(strings) |->
     [key |-> strings[i].key, val |-> Str(Translation(strings[i].val.s))]]
RepliesTo(strings) ==
  LET good == Translated(strings) IN
  {EmptyReply, TextReply, JsonReply(Null), JsonReply(Num("5")),
   JsonReply(Obj(good)),
   JsonReply(Obj(Reverse(good))),
   JsonReply(Obj(Append(good, [key |-> c \o c, val |-> Str("Extra")]))),
   JsonReply(Obj([i \in 1..Len(good) |->
      IF i = 1 THEN [key |-> good[i].key \o c, val |-> good[i].val] ELSE good[i]])),
   JsonReply(Obj(Tail(good))),
   JsonReply(Obj([i \in 1..Len(good) |->
      IF i = 1 THEN [key |-> good[i].key, val |-> Num("5")] ELSE good[i]]))}

\* ---------------------------------------------------------------- state
VARIABLES
  \* the codec and grouper applied to one input
  cpc, cTree, cFlat, cGrouped, cUngrouped, cRebuilt,
  \* openai.ts: the module's client, the OPENAI_API_KEY of the environment
  client, apiKey,
  \* translateBatch called on its own: the unit, the reply, the outcome
  tpc, tStrings, tReply, tResult,
  \* translate: its options
  inputFile, to, dryRun, missingOnly,
  \* the output directory: language -> content of <language>.json
  files,
  \* translate: its position, the error it threw, its locals
  pc, err, flattened, grouped, li, existingFlat, toTranslateGrouped, si,
  translatedGrouped,
  \* findMissingKeys called on its own: its position, the main file, the
  \* translations directory, the keys returned, the error thrown
  dpc, mainFile, translationsDir, dMissingKeys, dErr,
  \* requests sent and not yet answered
  inflight,
  \* history: the directory before the run, each target's file when its turn
  \* began, the units sent, the reply to each, the files written, the files read
  files0, before, calls, replies, writes, reads,
  \* the run this run repeats: how it ended, what it sent, got and wrote
  firstRun

cvars == <<cpc, cTree, cFlat, cGrouped, cUngrouped, cRebuilt>>
kvars == <<client, apiKey>>
tvars == <<tpc, tStrings, tReply, tResult>>
dvars == <<dpc, mainFile, translationsDir, dMissingKeys, dErr>>
options == <<inputFile, to, dryRun, missingOnly>>
locals == <<flattened, grouped, li, existingFlat, toTranslateGrouped, si, translatedGrouped>>
history == <<files0, before, calls, replies, writes, reads>>
rvars == <<options, files, pc, err, locals, inflight, history, firstRun>>
vars == <<cvars, kvars, tvars, dvars, rvars>>

\* No run came before this one.
NoRun == [pc |-> "none", err |-> "", calls |-> <<>>, replies |-> <<>>, writes |-> <<>>]

CodecIdle ==
  /\ cpc = "idle" /\ cTree = None /\ cFlat = None
  /\ cGrouped = None /\ cUngrouped = None /\ cRebuilt = None
ClientIdle ==
  /\ tpc = "idle" /\ tStrings = None /\ tReply = EmptyReply /\ tResult = None
DiffIdle ==
  /\ dpc = "idle" /\ mainFile = None /\ translationsDir = NoDirectory
  /\ dMissingKeys = <<>> /\ dErr = ""
RunIdle ==
  /\ inputFile = None /\ to = <<>> /\ dryRun = FALSE /\ missingOnly = FALSE
  /\ files = [l \in Langs |-> None] /\ files0 = files
  /\ pc = "idle" /\ err = "" /\ flattened = <<>> /\ grouped = <<>> /\ li = 0
  /\ existingFlat = <<>> /\ toTranslateGrouped = <<>> /\ si = 0
  /\ translatedGrouped = <<>> /\ inflight = 0
  /\ before = <<>> /\ calls = <<>> /\ replies = <<>>
  /\ writes = <<>> /\ reads = <<>>
  /\ firstRun = NoRun

\* ---------------------------------------------------------------- codec pipeline
CodecInit ==
  /\ cGrouped = None /\ cUngrouped = None /\ cRebuilt = None
  /\ \/ /\ cpc = "tree"
        /\ cTree \in {Obj(t) : t \in TreesOver(Names, Leaves, MaxNodes)}
        /\ cFlat = None
     \/ /\ cpc = "flat"
        /\ cTree = None
        /\ cFlat \in {Obj(f) : f \in ObjectsOver(FlatKeys, FlatValues, MaxFlat)}
  /\ client = FALSE /\ apiKey = FALSE
  /\ ClientIdle /\ DiffIdle /\ RunIdle

Flatten ==
  /\ cpc = "tree"
  /\ cFlat' = Obj(flatten(cTree.e, <<>>))
  /\ cpc' = "flat"
  /\ UNCHANGED <<cTree, cGrouped, cUngrouped, cRebuilt, kvars, tvars, dvars, rvars>>

Unflatten ==
  /\ cpc = "flat"
  /\ cRebuilt' = unflatten(cFlat.e)
  /\ cpc' = "rebuilt"
  /\ UNCHANGED <<cTree, cFlat, cGrouped, cUngrouped, kvars, tvars, dvars, rvars>>

Group ==
  /\ cpc = "flat"
  /\ cGrouped' = Obj(groupBySection(cFlat.e))
  /\ cpc' = "grouped"
  /\ UNCHANGED <<cTree, cFlat, cUngrouped, cRebuilt, kvars, tvars, dvars, rvars>>

Ungroup ==
  /\ cpc = "grouped"
  /\ cUngrouped' = Obj(ungroupFromSections(cGrouped.e))
  /\ cpc' = "ungrouped"
  /\ UNCHANGED <<cTree, cFlat, cGrouped, cRebuilt, kvars, tvars, dvars, rvars>>

CodecNext == Flatten \/ Unflatten \/ Group \/ Ungroup

SpecCodec == CodecInit /\ [][CodecNext]_vars

\* ---------------------------------------------------------------- the client on its own
\* initOpenAI without its test of the key.
InitOpenAIUnchecked(key) == Obj(<<>>)

\* initOpenAI: the client it sets, or the error it throws.
InitOpenAI(key) == IF ~key THEN Err("OPENAI_API_KEY environment variable is required")
                   ELSE Obj(<<>>)

ClientInit ==
  /\ client = FALSE /\ apiKey \in BOOLEAN
  /\ tpc = "idle"
  /\ tStrings \in Units
  /\ tReply = EmptyReply /\ tResult = None
  /\ CodecIdle /\ DiffIdle /\ RunIdle

CallInitOpenAI ==
  /\ tpc = "idle"
  /\ client' = ~IsErr(InitOpenAI(apiKey))
  /\ tpc' = "ready"
  /\ UNCHANGED <<apiKey, tStrings, tReply, tResult, cvars, dvars, rvars>>

\* translateBatch without its test of the client.
ClientMissingNever == FALSE

\* if (!client)
ClientMissing == ~client

\* translateBatch up to the request (openai.ts:25-48).
CallTranslateBatch ==
  /\ tpc \in {"idle", "ready"}
  /\ IF ClientMissing
     THEN tResult' = NotInitialized /\ tpc' = "done"
     ELSE tpc' = "await" /\ UNCHANGED tResult
  /\ UNCHANGED <<kvars, tStrings, tReply, cvars, dvars, rvars>>

\* translateBatch from the reply on (openai.ts:50-77).
ReceiveReply ==
  /\ tpc = "await"
  /\ \E reply \in ClientReplies :
       /\ tReply' = reply
       /\ tResult' = HandleReply(tStrings.e, reply)
  /\ tpc' = "done"
  /\ UNCHANGED <<kvars, tStrings, cvars, dvars, rvars>>

ClientNext == CallInitOpenAI \/ CallTranslateBatch \/ ReceiveReply

SpecClient == ClientInit /\ [][ClientNext]_vars

\* ---------------------------------------------------------------- the differ on its own
DiffInit ==
  /\ dpc = "call"
  /\ mainFile \in MainFiles
  /\ translationsDir \in Directories
  /\ dMissingKeys = <<>> /\ dErr = ""
  /\ client = FALSE /\ apiKey = FALSE
  /\ CodecIdle /\ ClientIdle /\ RunIdle

CallFindMissingKeys ==
  /\ dpc = "call"
  /\ dMissingKeys' = findMissingKeys(mainFile, translationsDir).keys
  /\ dErr' = findMissingKeys(mainFile, translationsDir).err
  /\ dpc' = "done"
  /\ UNCHANGED <<mainFile, translationsDir, cvars, kvars, tvars, rvars>>

DiffNext == CallFindMissingKeys

SpecDiff == DiffInit /\ [][DiffNext]_vars

\* ---------------------------------------------------------------- translate
Init ==
  /\ inputFile \in Inputs
  /\ to \in ToLists
  /\ dryRun \in BOOLEAN /\ missingOnly \in BOOLEAN
  /\ apiKey \in BOOLEAN /\ client = FALSE
  /\ files \in [Langs -> Existing]
  /\ \A l \in Langs : (\A i \in 1..Len(to) : to[i] # l) => files[l] = None
  /\ files0 = files
  /\ pc = "start" /\ err = ""
  /\ flattened = <<>> /\ grouped = <<>> /\ li = 0
  /\ existingFlat = <<>> /\ toTranslateGrouped = <<>> /\ si = 0
  /\ translatedGrouped = <<>> /\ inflight = 0
  /\ before = <<>> /\ calls = <<>> /\ replies = <<>>
  /\ writes = <<>> /\ reads = <<>>
  /\ firstRun = NoRun
  /\ CodecIdle /\ ClientIdle /\ DiffIdle

\* throw: the run ends with the error.
Throw(msg) == pc' = "failed" /\ err' = msg

\* The dry-run branch never taken.
IsDryRunNever == FALSE

\* if (dryRun)
IsDryRun == dryRun

\* The existing file merged in full mode as well.
IsMissingOnlyAlways == TRUE

\* if (missingOnly), in the loop over `to`
IsMissingOnly == missingOnly

\* The target with nothing missing not skipped.
AllTranslatedNever(missingKeys) == FALSE

\* if (missingKeys.length === 0)
AllTranslated(missingKeys) == Len(missingKeys) = 0

\* The loop over `to` goes on to its next target, or the run is done.
NextTarget == IF li = Len(to) THEN pc' = "done" /\ li' = li
              ELSE pc' = "lang" /\ li' = li + 1

\* translate up to the loop over `to` (translator.ts:34-94): load, flatten,
\* group, the dry-run report without --missing-only, initOpenAI, mkdir.
Start ==
  /\ pc = "start"
  /\ IF inputFile = None
     THEN Throw("Input file not found") /\ UNCHANGED <<flattened, grouped, li, client>>
     ELSE IF ~isPlainObject(inputFile)
     THEN /\ Throw("Input file must contain a JSON object")
          /\ UNCHANGED <<flattened, grouped, li, client>>
     ELSE
       /\ flattened' = flatten(inputFile.e, <<>>)
       /\ grouped' = groupBySection(flattened')
       /\ IF IsDryRun
          THEN /\ IF missingOnly THEN pc' = "dry" /\ li' = 1 ELSE pc' = "done" /\ li' = li
               /\ UNCHANGED <<err, client>>
          ELSE IF IsErr(InitOpenAI(apiKey))
          THEN Throw(InitOpenAI(apiKey).s) /\ UNCHANGED <<li, client>>
          ELSE client' = TRUE /\ pc' = "lang" /\ li' = 1 /\ UNCHANGED err
  /\ UNCHANGED <<existingFlat, toTranslateGrouped, si, translatedGrouped>>
  /\ UNCHANGED <<apiKey, options, files, inflight, history, firstRun, cvars, tvars, dvars>>

\* One pass of the dry run's loop over `to` (translator.ts:71-85).
DryRunTarget ==
  /\ pc = "dry"
  /\ LET file == files[to[li]] IN
     /\ before' = Append(before, file)
     /\ reads' = IF file = None THEN reads
                 ELSE Append(reads, [li |-> li, lang |-> to[li]])
     /\ IF file = Garbage
        THEN Throw("SyntaxError") /\ UNCHANGED li
        ELSE /\ IF li = Len(to) THEN pc' = "done" /\ li' = li
                ELSE pc' = "dry" /\ li' = li + 1
             /\ UNCHANGED err
  /\ UNCHANGED <<flattened, grouped, existingFlat, toTranslateGrouped, si, translatedGrouped>>
  /\ UNCHANGED <<kvars, options, files, inflight, files0, calls, replies, writes>>
  /\ UNCHANGED <<firstRun, cvars, tvars, dvars>>

\* The start of one pass of the loop over `to` (translator.ts:98-137): what
\* is found of the target's file, and what is left to translate.
\* outcome: "go" on to the sections, "skip" the target, "throw".
PlanTarget(file) ==
  IF ~IsMissingOnly \/ file = None
  THEN [outcome |-> "go", existingFlat |-> <<>>, toTranslateGrouped |-> grouped]
  ELSE IF file = Garbage
  THEN [outcome |-> "throw", existingFlat |-> <<>>, toTranslateGrouped |-> grouped]
  ELSE IF ~isPlainObject(file)
  THEN [outcome |-> "go", existingFlat |-> <<>>, toTranslateGrouped |-> grouped]
  ELSE
    LET existing == flatten(file.e, <<>>)
        existingKeys == KeySet(existing)
        missingKeys == MissingKeys(flattened, existingKeys)
        missingKeySet == {missingKeys[i] : i \in 1..Len(missingKeys)}
    IN IF AllTranslated(missingKeys)
       THEN [outcome |-> "skip", existingFlat |-> existing, toTranslateGrouped |-> grouped]
       ELSE [outcome |-> "go", existingFlat |-> existing,
             toTranslateGrouped |-> filterGroupedByKeys(grouped, missingKeySet)]

BeginTarget ==
  /\ pc = "lang"
  /\ LET file == files[to[li]]
         plan == PlanTarget(file)
     IN
     /\ before' = Append(before, file)
     /\ reads' = IF IsMissingOnly /\ file # None
                 THEN Append(reads, [li |-> li, lang |-> to[li]])
                 ELSE reads
     /\ existingFlat' = plan.existingFlat
     /\ toTranslateGrouped' = plan.toTranslateGrouped
     /\ translatedGrouped' = <<>>
     /\ CASE plan.outcome = "throw" -> Throw("SyntaxError") /\ UNCHANGED <<li, si>>
          [] plan.outcome = "skip" -> NextTarget /\ UNCHANGED <<err, si>>
          [] OTHER -> pc' = "send" /\ si' = 1 /\ UNCHANGED <<err, li>>
  /\ UNCHANGED <<flattened, grouped>>
  /\ UNCHANGED <<kvars, options, files, inflight, files0, calls, replies, writes>>
  /\ UNCHANGED <<firstRun, cvars, tvars, dvars>>

\* The call not awaited: the loop goes on while the request is in flight.
BetweenCallsOrAwaiting == pc \in {"send", "await"}

\* The loop over the sections is between two calls: the last one, if any,
\* was awaited.
BetweenCalls == pc = "send"

\* The loop over the sections never entered.
SectionsLeftNever == FALSE

\* for (... of Object.entries(toTranslateGrouped)): an entry is left.
SectionsLeft == si <= Len(toTranslateGrouped)

\* The loop over the sections stepping over every other entry.
NextSectionSkipping(i) == i + 2

\* The loop's step to its next entry.
NextSection(i) == i + 1

\* The rejection of translateBatch swallowed.
ReplyFailedNever(translated) == FALSE

\* await translateBatch(...): the promise was rejected, and the error goes
\* up through translate to the command's catch, which ends the process.
ReplyFailed(translated) == IsErr(translated)

\* translateBatch up to the request, for the next section (translator.ts:139-145,
\* openai.ts:25-48).
SendUnit ==
  /\ BetweenCalls
  /\ SectionsLeft
  /\ IF ClientMissing
     THEN Throw(NotInitialized.s) /\ UNCHANGED <<calls, inflight>>
     ELSE /\ calls' = Append(calls, [li |-> li, lang |-> to[li],
                                     section |-> toTranslateGrouped[si].key,
                                     strings |-> toTranslateGrouped[si].val.e])
          /\ inflight' = inflight + 1
          /\ pc' = "await"
          /\ UNCHANGED err
  /\ UNCHANGED <<locals, kvars, options, files, files0, before, replies, writes, reads>>
  /\ UNCHANGED <<firstRun, cvars, tvars, dvars>>

\* translateBatch from the reply on, and the rest of the loop's pass
\* (openai.ts:50-77, translator.ts:145-153).
ReceiveUnit ==
  /\ pc = "await"
  /\ \E reply \in RepliesTo(toTranslateGrouped[si].val.e) :
       LET translated == HandleReply(toTranslateGrouped[si].val.e, reply) IN
       /\ replies' = Append(replies, reply)
       /\ inflight' = inflight - 1
       /\ IF ReplyFailed(translated)
          THEN Throw(translated.s) /\ UNCHANGED <<translatedGrouped, si>>
          ELSE /\ translatedGrouped' =
                    Put(translatedGrouped, toTranslateGrouped[si].key, translated)
               /\ si' = NextSection(si)
               /\ pc' = "send"
               /\ UNCHANGED err
  /\ UNCHANGED <<flattened, grouped, li, existingFlat, toTranslateGrouped>>
  /\ UNCHANGED <<kvars, options, files, files0, before, calls, writes, reads>>
  /\ UNCHANGED <<firstRun, cvars, tvars, dvars>>

\* The end of one pass of the loop over `to` (translator.ts:155-173):
\* ungroup, merge, unflatten, write.
Persist ==
  /\ pc = "send"
  /\ ~SectionsLeft
  /\ LET translatedFlat == ungroupFromSections(translatedGrouped)
         mergedFlat == Assign(existingFlat, translatedFlat)
         mergedNested == unflatten(mergedFlat)
     IN IF IsErr(mergedNested)
        THEN Throw(mergedNested.s) /\ UNCHANGED <<files, writes, li>>
        ELSE /\ files' = [files EXCEPT ![to[li]] = mergedNested]
             /\ writes' = Append(writes, [li |-> li, lang |-> to[li],
                                          content |-> mergedNested])
             /\ NextTarget
             /\ UNCHANGED err
  /\ UNCHANGED <<flattened, grouped, existingFlat, toTranslateGrouped, si, translatedGrouped>>
  /\ UNCHANGED <<kvars, options, inflight, files0, before, calls, replies, reads>>
  /\ UNCHANGED <<firstRun, cvars, tvars, dvars>>

Next == Start \/ DryRunTarget \/ BeginTarget \/ SendUnit \/ ReceiveUnit \/ Persist

Spec == Init /\ [][Next]_vars

\* ---------------------------------------------------------------- the run repeated
\* The command given once more with --missing-only, the source, the targets
\* and the output directory the same, after the run has ended: a new
\* process, the directory as the run left it.
Rerun ==
  /\ pc \in {"done", "failed"}
  /\ firstRun = NoRun
  /\ firstRun' = [pc |-> pc, err |-> err, calls |-> calls, replies |-> replies,
                  writes |-> writes]
  /\ missingOnly' = TRUE
  /\ client' = FALSE
  /\ pc' = "start" /\ err' = ""
  /\ flattened' = <<>> /\ grouped' = <<>> /\ li' = 0
  /\ existingFlat' = <<>> /\ toTranslateGrouped' = <<>> /\ si' = 0
  /\ translatedGrouped' = <<>> /\ inflight' = 0
  /\ files0' = files
  /\ before' = <<>> /\ calls' = <<>> /\ replies' = <<>>
  /\ writes' = <<>> /\ reads' = <<>>
  /\ UNCHANGED <<apiKey, inputFile, to, dryRun, files, cvars, tvars, dvars>>

\* The runs that are repeated: no dry run, the credential set, the input an
\* object, one target or two different ones.
RerunInit ==
  /\ Init
  /\ ~dryRun /\ apiKey
  /\ isPlainObject(inputFile)
  /\ to \in {<<"en">>, <<"en", "fr">>}

\* No dry run is repeated: the steps of translate but the dry run's, and Rerun.
RerunNext == Start \/ BeginTarget \/ SendUnit \/ ReceiveUnit \/ Persist \/ Rerun

SpecRerun == RerunInit /\ [][RerunNext]_vars

\* ---------------------------------------------------------------- the client's two callers
\* translateBatch called by translate, or on its own.
UseInit == Init \/ ClientInit

UseNext == (pc # "idle" /\ Next) \/ (pc = "idle" /\ ClientNext)

SpecUse == UseInit /\ [][UseNext]_vars

\* ================================================================ claims
\* The leaf paths of a tree, each the names on the way joined by dots, one
\* per leaf (a nested object with no entry counts as a leaf of its parent).
RECURSIVE LeafPaths(_, _, _)
LeafPaths(obj, prefix, atRoot) ==
  IF obj = <<>> THEN <<>>
  ELSE
    LET key == Head(obj).key
        value == Head(obj).val
        path == IF atRoot THEN key ELSE Join(prefix, key)
        here == IF IsObj(value) /\ value.e # <<>>
                THEN LeafPaths(value.e, path, FALSE)
                ELSE <<path>>
    IN here \o LeafPaths(Tail(obj), prefix, atRoot)

\* Every leaf of the tree is a string.
RECURSIVE StringLeaves(_)
StringLeaves(obj) ==
  \A i \in 1..Len(obj) :
    IF IsObj(obj[i].val) THEN StringLeaves(obj[i].val.e) ELSE obj[i].val.k = "str"

\* p is a proper prefix of q that ends where a segment of q ends.
DottedPrefix(p, q) ==
  Len(p) < Len(q) /\ SubSeq(q, 1, Len(p)) = p /\ q[Len(p) + 1] = DOT

\* No two leaves share a path and no leaf path descends through another.
NoPathConflicts(obj) ==
  LET paths == LeafPaths(obj, <<>>, TRUE) IN
  \A i, j \in 1..Len(paths) :
    i # j => paths[i] # paths[j] /\ ~DottedPrefix(paths[i], paths[j])

\* No property name at any depth holds a dot.
RECURSIVE DotFreeNames(_)
DotFreeNames(obj) ==
  \A i \in 1..Len(obj) :
    /\ \A n \in 1..Len(obj[i].key) : obj[i].key[n] # DOT
    /\ IsObj(obj[i].val) => DotFreeNames(obj[i].val.e)

\* No nested object is empty.
RECURSIVE NoEmptyObjects(_)
NoEmptyObjects(obj) ==
  \A i \in 1..Len(obj) :
    IsObj(obj[i].val) => obj[i].val.e # <<>> /\ NoEmptyObjects(obj[i].val.e)

\* No top-level property named by the empty string holds an object.
NoEmptyRootSection(obj) ==
  \A i \in 1..Len(obj) : obj[i].key = <<>> => ~IsObj(obj[i].val)

RoundTripped == cpc = "rebuilt" /\ cTree # None

EntrySet(entries) == {entries[i] : i \in 1..Len(entries)}

\* C2: for every flat mapping F, ungroupFromSections(groupBySection(F)) has
\* exactly the entries of F.
C2_GroupRoundTrip ==
  cpc = "ungrouped" => EntrySet(cUngrouped.e) = EntrySet(cFlat.e)

\* ---------------------------------------------------------------- C3, C8
Returned == tpc = "done" /\ ~IsErr(tResult)

\* C3: whenever translateBatch returns, whatever the reply was, the returned
\* mapping has exactly the keys of the input mapping.
C3_SameKeySet ==
  Returned =>
    /\ ToSet(ObjectKeys(tResult)) = KeySet(tStrings.e)
    /\ Len(ObjectKeys(tResult)) = Len(tStrings.e)

\* Two keys sent, and returned in another order than sent.
C3_Witness ==
  /\ Returned
  /\ Len(tStrings.e) = 2
  /\ ObjectKeys(tResult) # Keys(tStrings.e)

\* The {{identifier}} tokens of a text.
Placeholders(text) ==
  IF text \in {"Hi {{name}}", "Hola {{name}}", "Hello {{name}}"} THEN {"{{name}}"}
  ELSE {}

\* C8: translateBatch never returns a mapping in which a placeholder of a
\* source value is absent from the translated value of the same key.
C8_PlaceholdersKept ==
  Returned =>
    \A i \in 1..Len(tStrings.e) :
      Has(tResult.e, tStrings.e[i].key) =>
        Placeholders(tStrings.e[i].val.s)
          \subseteq Placeholders(Get(tResult.e, tStrings.e[i].key).s)

\* ---------------------------------------------------------------- C4
\* The reply to call n parsed to a value with keys, and they are not the keys sent.
KeySetMismatch(n) ==
  /\ replies[n].kind = "json"
  /\ replies[n].v.k # "null"
  /\ ToSet(ObjectKeys(replies[n].v)) # KeySet(calls[n].strings)

WrittenIn(i) == \E w \in 1..Len(writes) : writes[w].li = i

\* C4: a reply whose key set differs from the request's ends the run with the
\* key-set-mismatch error, that call being the last, and the target in
\* progress is not written: its file is as it was when its turn began.
C4_MismatchAborts ==
  \A n \in 1..Len(replies) :
    KeySetMismatch(n) =>
      /\ pc = "failed"
      /\ err = "Translation response keys don't match input keys"
      /\ n = Len(calls)
      /\ ~WrittenIn(calls[n].li)
      /\ files[calls[n].lang] = before[calls[n].li]

\* The second section of the second target got a mismatching reply, after
\* the first target was written.
C4_Witness ==
  /\ replies # <<>>
  /\ KeySetMismatch(Len(replies))
  /\ li = 2 /\ si = 2
  /\ WrittenIn(1)
  /\ pc = "failed"

\* ---------------------------------------------------------------- C5
SourceKeys == KeySet(flattened)

\* The keys a file that parses holds, as flatten finds them.
FileKeys(file) == KeySet(flatten(file.e, <<>>))

CalledIn(i) == \E n \in 1..Len(calls) : calls[n].li = i

\* Target i got no call and no write, its file is as it was, and the run did
\* not end in its turn.
LeftAlone(i) ==
  /\ ~CalledIn(i)
  /\ ~WrittenIn(i)
  /\ files[to[i]] = before[i]
  /\ pc = "failed" => li # i

\* C5 as stated: with --missing-only, a target whose existing file (any file
\* that parses) contains every source key gets no call and no write, and the
\* run goes on.
C5_AsStated ==
  missingOnly =>
    \A i \in 1..Len(before) :
      (before[i].k \in {"obj", "arr"} /\ SourceKeys \subseteq FileKeys(before[i]))
        => LeftAlone(i)

\* The file is a JSON object that holds every key of the source.
HoldsAllSourceKeys(file) ==
  isPlainObject(file) /\ SourceKeys \subseteq FileKeys(file)

\* C5 amended: with --missing-only, a target whose existing file is a JSON
\* object that contains every source key gets no call and no write, its file
\* stays as it was, and the run goes on at once to the next target (or is
\* done).
C5_CompleteTargetSkipped ==
  missingOnly =>
    \A i \in 1..Len(before) :
      HoldsAllSourceKeys(before[i]) =>
        /\ LeftAlone(i)
        /\ li > i \/ pc = "done"

\* The first target was complete and skipped; the second is being translated.
C5_Witness ==
  /\ missingOnly /\ ~dryRun
  /\ Len(before) = 2
  /\ SourceKeys # {}
  /\ HoldsAllSourceKeys(before[1])
  /\ ~CalledIn(1) /\ CalledIn(2)
  /\ pc = "await"

\* ---------------------------------------------------------------- C6, C7
\* The section of a flat key: what is before its first dot.
SectionOf(key) == Head(Split(key))

MissingFrom(file) == SourceKeys \ FileKeys(file)

\* C6: with --missing-only and a target file that is an object, every unit
\* sent is for a section with a missing key and holds exactly the missing
\* keys of that section.
C6_OnlyMissingSent ==
  missingOnly =>
    \A n \in 1..Len(calls) :
      isPlainObject(before[calls[n].li]) =>
        LET missing == {k \in MissingFrom(before[calls[n].li]) :
                          SectionOf(k) = calls[n].section}
        IN /\ missing # {}
           /\ {FullKey(calls[n].section, r) : r \in KeySet(calls[n].strings)} = missing

\* The texts the replies to target i's calls gave for the flat key k: the
\* value under a remainder that, joined to the call's section, is k.
TranslatedTexts(i, k) ==
  {Get(replies[t[1]].v.e, t[2]).s :
     t \in {u \in (1..Len(replies)) \X {empty, b, c} :
              /\ calls[u[1]].li = i
              /\ replies[u[1]].kind = "json"
              /\ Has(replies[u[1]].v.e, u[2])
              /\ k \in {FullKey(calls[u[1]].section, u[2]),
                        Join(calls[u[1]].section, u[2])}}}

\* C7: with --missing-only, what is written for a target whose file was an
\* object holds every entry of that file unchanged, and every source key
\* that was missing with its translated text.
C7_MergeKeepsExisting ==
  missingOnly =>
    \A w \in 1..Len(writes) :
      isPlainObject(before[writes[w].li]) =>
        LET old == flatten(before[writes[w].li].e, <<>>)
            new == flatten(writes[w].content.e, <<>>)
        IN /\ EntrySet(old) \subseteq EntrySet(new)
           /\ \A k \in MissingFrom(before[writes[w].li]) :
                /\ Has(new, k)
                /\ Get(new, k).s \in TranslatedTexts(writes[w].li, k)

\* ---------------------------------------------------------------- C9
\* C9: a dry run sends nothing, leaves the client uninitialized and writes
\* no file: the directory stays as it was.
C9_DryRunTouchesNothing ==
  dryRun =>
    /\ calls = <<>> /\ inflight = 0
    /\ ~client
    /\ writes = <<>>
    /\ files = files0

\* A dry run with --missing-only that read the files of two targets and ended.
C9_Witness ==
  /\ dryRun /\ missingOnly
  /\ pc = "done"
  /\ Len(reads) = 2
  /\ files = files0

\* ---------------------------------------------------------------- C10
\* The sections in the order flatten first came upon them.
RECURSIVE FirstSeen(_, _)
FirstSeen(seen, keys) ==
  IF keys = <<>> THEN seen
  ELSE FirstSeen(IF \E i \in 1..Len(seen) : seen[i] = SectionOf(Head(keys))
                 THEN seen ELSE Append(seen, SectionOf(Head(keys))),
                 Tail(keys))

Position(seq, x) == CHOOSE i \in 1..Len(seq) : seq[i] = x

\* C10: at most one request is in flight; every call but the latest was
\* answered before the next was sent; calls come target by target in the
\* order of --to, and within a target in the order the sections were first
\* seen while flattening.
C10_Sequential ==
  /\ inflight \in {0, 1}
  /\ inflight = Len(calls) - Len(replies)
  /\ \A m, n \in 1..Len(calls) :
       m < n =>
         /\ calls[m].li <= calls[n].li
         /\ calls[m].li = calls[n].li =>
              Position(FirstSeen(<<>>, Keys(flattened)), calls[m].section)
                < Position(FirstSeen(<<>>, Keys(flattened)), calls[n].section)

\* Two sections sent for the first target, then the first of the second, in flight.
C10_Witness ==
  /\ Len(calls) = 3
  /\ calls[1].li = 1 /\ calls[2].li = 1 /\ calls[3].li = 2
  /\ calls[1].section # calls[2].section
  /\ inflight = 1

\* ---------------------------------------------------------------- C11
\* The reply to call n made translateBatch throw.
CallFailed(n) == IsErr(HandleReply(calls[n].strings, replies[n]))

\* What the run last wrote to the file of language l, or the file as it was
\* before the run when the run wrote none.
LastWritten(l) ==
  LET ws == {w \in 1..Len(writes) : writes[w].lang = l} IN
  IF ws = {} THEN files0[l]
  ELSE writes[CHOOSE w \in ws : \A v \in ws : v <= w].content

\* C11: once a call of the client fails the run is over: that call is the
\* last one sent, no file is written for the target in progress or a later
\* one, and every file written for an earlier target holds what was written.
C11_FailFast ==
  \A n \in 1..Len(replies) :
    CallFailed(n) =>
      /\ pc = "failed"
      /\ n = Len(calls)
      /\ \A w \in 1..Len(writes) : writes[w].li < calls[n].li
      /\ \A l \in Langs : files[l] = LastWritten(l)

\* The first target, another language, was written over an existing file;
\* the second section of the second target got no content.
C11_Witness ==
  /\ pc = "failed"
  /\ Len(replies) = 4
  /\ replies[4].kind = "empty"
  /\ CallFailed(4)
  /\ calls[4].li = 2 /\ to[1] # to[2]
  /\ Len(writes) = 1
  /\ files0[to[1]] \notin {None, writes[1].content}
  /\ files[to[1]] = writes[1].content

\* ---------------------------------------------------------------- C12
\* The sections target i had to send, and what was found of its file.
PlanOf(i) == PlanTarget(before[i])

\* The answered calls of target i, in order.
AnsweredCalls(i) ==
  SelectSeq([n \in 1..Len(replies) |-> n], LAMBDA n : calls[n].li = i)

\* Every section target i had to send was sent and answered without error.
LoopCompleted(i) ==
  /\ [j \in 1..Len(AnsweredCalls(i)) |-> calls[AnsweredCalls(i)[j]].section]
       = Keys(PlanOf(i).toTranslateGrouped)
  /\ \A j \in 1..Len(AnsweredCalls(i)) : ~CallFailed(AnsweredCalls(i)[j])

\* The sections of target i as its replies gave them.
RepliedSections(i) ==
  [j \in 1..Len(AnsweredCalls(i)) |->
     [key |-> calls[AnsweredCalls(i)[j]].section, val |-> replies[AnsweredCalls(i)[j]].v]]

\* The tree made of what was found of target i's file and of all its replies.
CompleteResult(i) ==
  unflatten(Assign(PlanOf(i).existingFlat, ungroupFromSections(RepliedSections(i))))

\* C12: at every point of a run, whatever ends it, the file of each language
\* is as it was before the run or as the run wrote it, and each write was made
\* after every section of that target's loop was answered without error, from
\* the complete result of that loop.
C12_AllOrNothing ==
  /\ \A l \in Langs : files[l] = LastWritten(l)
  /\ \A w \in 1..Len(writes) :
       /\ LoopCompleted(writes[w].li)
       /\ writes[w].content = CompleteResult(writes[w].li)

\* The run failed in the second section of its only target, whose file
\* exists: it is as it was.
C12_Witness ==
  /\ pc = "failed"
  /\ Len(to) = 1
  /\ Len(replies) = 2 /\ CallFailed(2)
  /\ writes = <<>>
  /\ files0[to[1]] # None
  /\ files = files0

\* ---------------------------------------------------------------- C13
\* The key paths of a tree, each the names from the root to a leaf (a nested
\* object with no entry is a leaf).
RECURSIVE Paths(_)
Paths(obj) ==
  UNION {IF IsObj(obj[i].val) /\ obj[i].val.e # <<>>
         THEN {<<obj[i].key>> \o p : p \in Paths(obj[i].val.e)}
         ELSE {<<obj[i].key>>} : i \in 1..Len(obj)}

\* C13: every file written, in full or incremental mode, has the key paths
\* of the source, nested as in the source.
C13_Isomorphic ==
  \A w \in 1..Len(writes) : Paths(writes[w].content.e) = Paths(inputFile.e)

\* ---------------------------------------------------------------- C14
\* The files of the directory that are comparison mappings: *.json, not named
\* as the main file, read as an object.
Comparisons ==
  {i \in 1..Len(translationsDir.files) :
     /\ EndsWithJson(translationsDir.files[i].name)
     /\ translationsDir.files[i].name # mainFileName
     /\ isPlainObject(translationsDir.files[i].content)}

ComparisonKeys(i) == ToSet(collectKeys(translationsDir.files[i].content.e, <<>>))
ReferenceKeys == ToSet(collectKeys(mainFile.e, <<>>))
FoundMissing == dpc = "done" /\ dErr = ""

\* C14: findMissingKeys reports a key of the reference if and only if no
\* comparison mapping holds it; with no comparison mapping it reports every
\* key of the reference.
C14_MissingFromAll ==
  FoundMissing =>
    /\ \A k \in ReferenceKeys :
         k \in ToSet(dMissingKeys) <=> \A i \in Comparisons : k \notin ComparisonKeys(i)
    /\ ToSet(dMissingKeys) \subseteq ReferenceKeys
    /\ Comparisons = {} => ToSet(dMissingKeys) = ReferenceKeys

\* Two comparison mappings; a key held by one of them only is not reported,
\* and a key held by neither is.
C14_Witness ==
  /\ FoundMissing
  /\ Cardinality(Comparisons) = 2
  /\ \E k \in ReferenceKeys :
       /\ \E i, j \in Comparisons : k \in ComparisonKeys(i) /\ k \notin ComparisonKeys(j)
       /\ k \notin ToSet(dMissingKeys)
  /\ dMissingKeys # <<>>

\* ---------------------------------------------------------------- C15
CredentialError == "OPENAI_API_KEY environment variable is required"
NotFoundError == "Input file not found"
ShapeError == "Input file must contain a JSON object"

\* No output file read or written, no call, no client.
NothingDone ==
  /\ ~client
  /\ calls = <<>> /\ inflight = 0
  /\ writes = <<>> /\ reads = <<>>
  /\ files = files0

CredentialAbsent == ~apiKey /\ ~dryRun /\ pc # "start"

C16_LoadFails ==
  pc # "start" =>
    /\ inputFile = None => pc = "failed" /\ err = NotFoundError /\ NothingDone
    /\ inputFile.k \in {"arr", "null", "num", "str"} =>
         pc = "failed" /\ err = ShapeError /\ NothingDone

\* A run with the credential and a target file in place, its input null.
C16_Witness ==
  /\ pc = "failed" /\ err = ShapeError
  /\ inputFile = Null
  /\ apiKey /\ ~dryRun
  /\ files[to[1]] # None
  /\ NothingDone

\* ---------------------------------------------------------------- C17
\* C17: no section is sent twice for one target; a run in full mode that
\* ends well has sent (sections) x (targets) requests; a call that failed is
\* followed by no other.
C17_OncePerSection ==
  /\ \A m, n \in 1..Len(calls) :
       m # n => calls[m].li # calls[n].li \/ calls[m].section # calls[n].section
  /\ (pc = "done" /\ ~dryRun /\ ~missingOnly) => Len(calls) = Len(grouped) * Len(to)
  /\ \A n \in 1..Len(replies) : CallFailed(n) => n = Len(calls)

\* A full run of two sections to two targets ended well: four requests.
C17_Witness ==
  /\ pc = "done" /\ ~dryRun /\ ~missingOnly
  /\ Len(grouped) = 2 /\ Len(to) = 2
  /\ Len(calls) = 4

\* ---------------------------------------------------------------- C18
\* The tree made of all the replies of target i, and of nothing else.
FullResult(i) == unflatten(ungroupFromSections(RepliedSections(i)))

\* C18: in full mode the units sent for a target are the sections of the
\* source, and what is written is made of the replies alone, whatever the
\* file held: two runs that differ in the prior files only send the same
\* units and, given the same replies, write the same files.
C18_FullReplaces ==
  ~missingOnly =>
    /\ \A n \in 1..Len(calls) :
         /\ Has(grouped, calls[n].section)
         /\ calls[n].strings = Get(grouped, calls[n].section).e
    /\ \A w \in 1..Len(writes) :
         /\ [j \in 1..Len(RepliedSections(writes[w].li)) |->
               RepliedSections(writes[w].li)[j].key] = Keys(grouped)
         /\ writes[w].content = FullResult(writes[w].li)
    /\ \A l \in Langs : files[l] = LastWritten(l)

\* A full run wrote over a file that held keys the source does not have.
C18_Witness ==
  /\ ~missingOnly
  /\ Len(writes) = 1
  /\ isPlainObject(before[1])
  /\ ~(FileKeys(before[1]) \subseteq SourceKeys)
  /\ files[to[1]] = writes[1].content
  /\ FileKeys(files[to[1]]) = SourceKeys

\* ---------------------------------------------------------------- C19
\* C19: in one run the file of each language is read at most once and
\* written at most once, whatever the list of targets.
C19_ReadWriteOnce ==
  \A l \in Langs :
    /\ Cardinality({w \in 1..Len(writes) : writes[w].lang = l}) <= 1
    /\ Cardinality({r \in 1..Len(reads) : reads[r].lang = l}) <= 1

\* ---------------------------------------------------------------- C20
\* C20: the keys of a written file that are keys of the source come in the
\* order flatten first saw them in the source, whatever the order of the
\* replies' keys.
C20_SourceOrder ==
  \A w \in 1..Len(writes) :
    LET out == Keys(flatten(writes[w].content.e, <<>>)) IN
    SelectSeq(out, LAMBDA k : k \in SourceKeys)
      = SelectSeq(Keys(flattened), LAMBDA k : k \in ToSet(out))

\* ---------------------------------------------------------------- C21
\* The reply made translateBatch throw.
FailedReply(strings, reply) == IsErr(HandleReply(strings, reply))

\* This run repeats one that a failing call of the client ended.
AbortedOnClient ==
  /\ firstRun.pc = "failed"
  /\ firstRun.replies # <<>>
  /\ FailedReply(firstRun.calls[Len(firstRun.replies)].strings,
                 firstRun.replies[Len(firstRun.replies)])

\* What is after the first dot of a flat key; nothing when it has no dot.
RemainderOf(key) ==
  IF IndexOfDot(key) = 0 THEN <<>> ELSE SubSeq(key, IndexOfDot(key) + 1, Len(key))

\* The keys of the source whose texts call n sent.
SentKeys(n) ==
  {k \in SourceKeys : /\ SectionOf(k) = calls[n].section
                      /\ RemainderOf(k) \in KeySet(calls[n].strings)}

PersistedByFirstRun(l) == \E w \in 1..Len(firstRun.writes) : firstRun.writes[w].lang = l

Conflicting(keys) ==
  \E i, j \in 1..Len(keys) : DottedPrefix(keys[i], keys[j])

\* C22: unflatten of a flat mapping with two such keys fails, in whatever
\* order they come; it returns no tree.
C22_ConflictFails ==
  (cpc = "rebuilt" /\ Conflicting(Keys(cFlat.e))) => IsErr(cRebuilt)

\* ---------------------------------------------------------------- C23
\* C23: groupBySection puts every entry of the flat mapping under its
\* section (the key up to its first dot) and remainder (the key after it),
\* the value unchanged, and the sections hold as many entries as the mapping.
RECURSIVE SumOfEntries(_)
SumOfEntries(sections) ==
  IF sections = <<>> THEN 0 ELSE Len(Head(sections).val.e) + SumOfEntries(Tail(sections))

C23_Partition ==
  cpc = "grouped" =>
    /\ \A i \in 1..Len(cFlat.e) :
         LET k == cFlat.e[i].key IN
         /\ Has(cGrouped.e, SectionOf(k))
         /\ Has(Get(cGrouped.e, SectionOf(k)).e, RemainderOf(k))
         /\ Get(Get(cGrouped.e, SectionOf(k)).e, RemainderOf(k)) = cFlat.e[i].val
    /\ SumOfEntries(cGrouped.e) = Len(cFlat.e)

\* ---------------------------------------------------------------- C24
\* The names from the root to a leaf, joined with dots.
RECURSIVE JoinAll(_)
JoinAll(names) ==
  IF Len(names) = 1 THEN names[1] ELSE Join(names[1], JoinAll(Tail(names)))

\* One entry for each leaf of the tree (a value that is no plain object), in
\* order: the joined path and the string form of the leaf.
RECURSIVE LeafEntries(_, _)
LeafEntries(obj, path) ==
  IF obj = <<>> THEN <<>>
  ELSE
    LET names == Append(path, Head(obj).key)
        here == IF IsObj(Head(obj).val) THEN LeafEntries(Head(obj).val.e, names)
                ELSE <<[key |-> JoinAll(names), val |-> Str(Head(obj).val.s)]>>
    IN here \o LeafEntries(Tail(obj), path)

\* C24: flatten gives one entry for each leaf, under the leaf's joined path
\* and holding its string form; two leaves never share a key.
C24_OneEntryPerLeaf ==
  (cpc = "flat" /\ cTree # None) =>
    /\ EntrySet(cFlat.e) = EntrySet(LeafEntries(cTree.e, <<>>))
    /\ Len(cFlat.e) = Len(LeafEntries(cTree.e, <<>>))

\* ---------------------------------------------------------------- C25
\* C25: translateBatch called while no client is set throws the
\* not-initialized error and sends nothing; translate never gets that error:
\* whenever it calls translateBatch, initOpenAI has found the key and set
\* the client.
C25_InitializedFirst ==
  /\ (tpc \in {"await", "done"} /\ ~client) =>
       tpc = "done" /\ tResult = NotInitialized /\ tReply = EmptyReply
  /\ pc # "idle" =>
       /\ err # NotInitialized.s
       /\ pc \in {"lang", "send", "await"} => client
       /\ calls # <<>> => apiKey

\* translateBatch was called with the key absent and initOpenAI failed.
C25_Witness ==
  /\ tpc = "done" /\ ~client /\ ~apiKey
  /\ tResult = NotInitialized
  /\ Len(tStrings.e) = 2

\* ---------------------------------------------------------------- C26
\* C26: what translateBatch returns is an object whose values are all
\* strings.
C26_StringValues ==
  Returned =>
    /\ IsObj(tResult)
    /\ \A i \in 1..Len(tResult.e) : tResult.e[i].val.k = "str"

\* ---------------------------------------------------------------- C27
\* C27: findMissingKeys throws and returns no keys when there is no main
\* file, and when there is no translations directory; with neither, the
\* error is the main file's.
C27_NotFound ==
  dpc = "done" =>
    /\ mainFile = None => dErr = "Main file not found" /\ dMissingKeys = <<>>
    /\ (mainFile # None /\ ~translationsDir.exists) =>
         dErr = "Translations directory not found" /\ dMissingKeys = <<>>

\* Neither the main file nor the directory exists.
C27_Witness ==
  /\ dpc = "done"
  /\ mainFile = None /\ ~translationsDir.exists
  /\ dErr = "Main file not found"

\* ---------------------------------------------------------------- C28
\* C28: every unit translate sends holds at least one key.
C28_NoEmptyUnit ==
  \A n \in 1..Len(calls) : calls[n].strings # <<>>

\* With --missing-only a section of two keys was sent with the one key that
\* was missing, and the run ended well.
C28_Witness ==
  /\ missingOnly
  /\ pc = "done"
  /\ calls # <<>>
  /\ Len(calls[1].strings) = 1
  /\ Len(Get(grouped, calls[1].section).e) = 2

\* ---------------------------------------------------------------- C29
\* C29: the run that repeats another sends nothing for a language the
\* first run persisted, and leaves its file as it was.
C29_Idempotent ==
  firstRun # NoRun =>
    \A i \in 1..Len(before) :
      PersistedByFirstRun(to[i]) =>
        /\ ~CalledIn(i)
        /\ files[to[i]] = files0[to[i]]

====
